---- MODULE Spec2Model ----
(***************************************************************************)
(* Model of the tool-use conversation loop of openapi-agent-cli:           *)
(*   src/api_call_service.py  header store, masking, api_call_service      *)
(*   src/main.py              process_tool_use, chat_with_claude           *)
(*                                                                         *)
(* Python values are tagged records [t, v]; a Python dict is the sequence  *)
(* of its [k, v] items in insertion order; a str is a TLA+ string.         *)
(***************************************************************************)
EXTENDS Integers, Sequences, FiniteSets, TLC

VARIABLES
    _default_headers,        \* api_call_service.py: the shared header store
    apiIn,                   \* arguments and HTTP outcome of the latest api_call_service call
    apiOut,                  \* what that call did: returned mapping or raised exception
    pc,                      \* chat_with_claude: position of the call
    iteration,               \* chat_with_claude: local iteration
    messages,                \* chat_with_claude: the conversation
    response,                \* chat_with_claude: the latest model response
    returned,                \* chat_with_claude: the value handed to the caller
    raisedExc,               \* chat_with_claude: the exception that left the call
    tool_execution_history,  \* main.py: the execution ledger
    modelCalls,              \* number of client.messages.create calls made
    lastRequest,             \* the messages argument of the latest model call
    sentTools,               \* the tools argument of the latest model call
    httpLog,                 \* the requests.request calls issued, in order
    varied,                  \* iterations so far that left the default exchange
    logged,                  \* logger.py: the records the latest step logged
    op,                      \* the function a caller called last, outside chat_with_claude
    callArg,                 \* the caller's argument object, as that call left it
    callResult,              \* the value that call handed back to the caller
    setLog,                  \* the set_default_header calls made since the last clear
    queries                  \* cli.py: the user queries typed in conversation mode

vars == <<_default_headers, apiIn, apiOut, pc, iteration, messages, response,
          returned, raisedExc, tool_execution_history, modelCalls, lastRequest,
          sentTools, httpLog, varied, logged, op, callArg, callResult, setLog, queries>>

\* the state of a caller that uses the header store, the masker or the
\* validator directly
callVars == <<op, callArg, callResult, setLog, queries>>

\* the state of one chat_with_claude call
loopVars == <<pc, iteration, messages, response, returned, raisedExc,
              tool_execution_history, modelCalls, lastRequest, sentTools, varied>>

-----------------------------------------------------------------------------
(* Python values *)

JNull == [t |-> "null", v |-> 0]
JStr(s) == [t |-> "str", v |-> s]
JNum(n) == [t |-> "num", v |-> n]
JBool(b) == [t |-> "bool", v |-> b]
JList(s) == [t |-> "list", v |-> s]
JDict(d) == [t |-> "dict", v |-> d]

\* one item of a dict
Item(key, val) == [k |-> key, v |-> val]

\* Python truthiness: `not x` is Falsy(x)
Falsy(x) ==
    \/ x.t = "null"
    \/ x.t = "str" /\ x.v = ""
    \/ x.t = "num" /\ x.v = 0
    \/ x.t = "bool" /\ ~x.v
    \/ x.t \in {"list", "dict"} /\ x.v = <<>>

\* key in d
DictHas(d, key) == \E i \in 1..Len(d) : d[i].k = key

\* d[key], for a key that is present
DictGet(d, key) == d[CHOOSE i \in 1..Len(d) : d[i].k = key].v

\* d.get(key): None when absent
DictGetOrNone(d, key) == IF DictHas(d, key) THEN DictGet(d, key) ELSE JNull

\* d[key] = val: an existing key keeps its place, a new key goes last
DictSet(d, key, val) ==
    IF DictHas(d, key)
    THEN [i \in 1..Len(d) |-> IF d[i].k = key THEN Item(key, val) ELSE d[i]]
    ELSE Append(d, Item(key, val))

\* the keys of d, as a set
DictKeys(d) == {d[i].k : i \in 1..Len(d)}

\* type(x).__name__ of a JSON scalar
TypeName(x) ==
    CASE x.t = "null" -> "NoneType"
      [] x.t = "str" -> "str"
      [] x.t = "num" -> "int"
      [] x.t = "bool" -> "bool"
      [] x.t = "list" -> "list"
      [] x.t = "dict" -> "dict"

-----------------------------------------------------------------------------
(* json.dumps: the text as its sequence of JSON tokens (whitespace left out) *)

Tok(kind, text) == [kind |-> kind, text |-> text]
Punct(c) == Tok("punct", c)

RECURSIVE json_dumps(_)
RECURSIVE DumpItems(_, _)
RECURSIVE DumpElems(_, _)

\* the items of a dict from index i on, comma separated
DumpItems(d, i) ==
    IF i > Len(d) THEN <<>>
    ELSE (IF i > 1 THEN <<Punct(",")>> ELSE <<>>)
         \o <<Tok("string", d[i].k), Punct(":")>>
         \o json_dumps(d[i].v)
         \o DumpItems(d, i + 1)

\* the elements of a list from index i on, comma separated
DumpElems(s, i) ==
    IF i > Len(s) THEN <<>>
    ELSE (IF i > 1 THEN <<Punct(",")>> ELSE <<>>)
         \o json_dumps(s[i])
         \o DumpElems(s, i + 1)

json_dumps(x) ==
    CASE x.t = "null" -> <<Tok("literal", "null")>>
      [] x.t = "bool" -> <<Tok("literal", IF x.v THEN "true" ELSE "false")>>
      [] x.t = "num" -> <<Tok("number", ToString(x.v))>>
      [] x.t = "str" -> <<Tok("string", x.v)>>
      [] x.t = "list" -> <<Punct("[")>> \o DumpElems(x.v, 1) \o <<Punct("]")>>
      [] x.t = "dict" -> <<Punct("{")>> \o DumpItems(x.v, 1) \o <<Punct("}")>>

-----------------------------------------------------------------------------
(* api_call_service.py: the header store *)

InitialDefaultHeaders ==
    << Item("Content-Type", JStr("application/json")),
       Item("Accept", JStr("application/json")) >>

\* get_default_headers(): a deep copy of the store; values are immutable here,
\* so the copy is the same value and shares nothing with the store
get_default_headers(store) == store

\* set_default_header with an existing name left as it is
set_default_header_KeepsFirst(store, header_name, header_value) ==
    IF DictHas(store, header_name) THEN store
    ELSE DictSet(store, header_name, header_value)

\* set_default_header(header_name, header_value): the store after line 30
set_default_header(store, header_name, header_value) ==
    DictSet(store, header_name, header_value)

\* clear_default_headers(): the store after lines 46-49, a new dict
clear_default_headers(store) == InitialDefaultHeaders

\* a mapping a function handed to its caller: live says that it is the
\* store's own dict (lines 31 and 50 return _default_headers itself) and not a
\* copy of it (line 41)
Handed(value, live) == [called |-> TRUE, value |-> value, live |-> live]

-----------------------------------------------------------------------------
(* api_call_service.py: mask_sensitive_headers *)

LowerChar(c) ==
    CASE c = "A" -> "a" [] c = "B" -> "b" [] c = "C" -> "c" [] c = "D" -> "d"
      [] c = "E" -> "e" [] c = "F" -> "f" [] c = "G" -> "g" [] c = "H" -> "h"
      [] c = "I" -> "i" [] c = "J" -> "j" [] c = "K" -> "k" [] c = "L" -> "l"
      [] c = "M" -> "m" [] c = "N" -> "n" [] c = "O" -> "o" [] c = "P" -> "p"
      [] c = "Q" -> "q" [] c = "R" -> "r" [] c = "S" -> "s" [] c = "T" -> "t"
      [] c = "U" -> "u" [] c = "V" -> "v" [] c = "W" -> "w" [] c = "X" -> "x"
      [] c = "Y" -> "y" [] c = "Z" -> "z" [] OTHER -> c

RECURSIVE LowerFrom(_, _)
LowerFrom(s, i) ==
    IF i > Len(s) THEN "" ELSE LowerChar(SubSeq(s, i, i)) \o LowerFrom(s, i + 1)

\* str.lower()
Lower(s) == LowerFrom(s, 1)

sensitive_headers == {"authorization", "x-api-key", "api-key", "token", "apikey"}

\* ' ' in value
HasSpace(s) == \E i \in 1..Len(s) : SubSeq(s, i, i) = " "

\* value.split(' ')[0]: the text before the first space
FirstWord(s) ==
    IF HasSpace(s)
    THEN LET first == CHOOSE i \in 1..Len(s) :
                          /\ SubSeq(s, i, i) = " "
                          /\ \A j \in 1..(i - 1) : SubSeq(s, j, j) # " "
         IN SubSeq(s, 1, first - 1)
    ELSE s

\* value[:n]
Prefix(s, n) == SubSeq(s, 1, IF Len(s) < n THEN Len(s) ELSE n)

\* the masked form of one sensitive header value (a str)
MaskValue(value) ==
    IF value # "" /\ Len(value) > 8
    THEN LET type_part == IF HasSpace(value) THEN FirstWord(value) ELSE ""
         IN IF type_part # "" /\ Len(type_part) < Len(value)
            THEN type_part \o " " \o "********"
            ELSE Prefix(value, 4) \o "********"
    ELSE "********"

\* mask_sensitive_headers(headers): headers is a dict of str values
mask_sensitive_headers(headers) ==
    IF headers = <<>> THEN <<>>
    ELSE [i \in 1..Len(headers) |->
            IF Lower(headers[i].k) \in sensitive_headers
            THEN Item(headers[i].k, JStr(MaskValue(headers[i].v.v)))
            ELSE headers[i]]

-----------------------------------------------------------------------------
(* main.py: validate_tools *)

\* s.split('_'): the texts between the underscores of s, in order
Split(s) ==
    LET cuts == {i \in 1..Len(s) : SubSeq(s, i, i) = "_"}
        \* the position of the k-th underscore; 0 and Len(s) + 1 bound the text
        cut(k) == IF k = 0 THEN 0
                  ELSE IF k > Cardinality(cuts) THEN Len(s) + 1
                  ELSE CHOOSE p \in cuts : Cardinality({q \in cuts : q < p}) = k - 1
    IN [k \in 1..(Cardinality(cuts) + 1) |-> SubSeq(s, cut(k - 1) + 1, cut(k) - 1)]

RECURSIVE Join(_)
\* '_'.join(parts)
Join(parts) ==
    IF parts = <<>> THEN ""
    ELSE IF Len(parts) = 1 THEN parts[1]
    ELSE parts[1] \o "_" \o Join(Tail(parts))

\* line 243 and line 246 with the cut two characters later
SimpleTruncation_CutAt62(original_name) == Prefix(original_name, 62) \o "..."

\* lines 243 and 246 with the end of the name kept
SimpleTruncation_KeepsEnd(original_name) ==
    "..." \o SubSeq(original_name, Len(original_name) - 59, Len(original_name))

\* lines 243 and 246 with a marker of five characters
SimpleTruncation_LongMarker(original_name) == Prefix(original_name, 60) \o "....."

\* lines 243 and 246: original_name[:60] + "..."
SimpleTruncation(original_name) == Prefix(original_name, 60) \o "..."

\* lines 234-240 with the suffix left out
SegmentTruncation_NoSuffix(prefix, parts, suffix, remaining_chars) ==
    LET middle == Join(SubSeq(parts, 4, Len(parts) - 1))
    IN prefix \o "_" \o Prefix(middle, remaining_chars + Len(suffix) + 1)

\* lines 234-240: the middle parts, cut to the room left, between prefix and suffix
SegmentTruncation(prefix, parts, suffix, remaining_chars) ==
    LET middle == Join(SubSeq(parts, 4, Len(parts) - 1))
    IN prefix \o "_"
       \o (IF Len(middle) > remaining_chars THEN Prefix(middle, remaining_chars) ELSE middle)
       \o "_" \o suffix

\* line 222 with the test four characters early
NameTooLong_Over60(name) == Len(name) > 60

\* line 222: len(valid_tool["name"]) > 64
NameTooLong(name) == Len(name) > 64

\* lines 222-246: the name validate_tools gives a tool named name
ValidName(name) ==
    IF NameTooLong(name)
    THEN LET parts == Split(name)
         IN IF Len(parts) >= 3
            THEN LET prefix == Join(SubSeq(parts, 1, 3))
                     suffix == parts[Len(parts)]
                     remaining_chars == 64 - Len(prefix) - Len(suffix) - 2
                 IN IF remaining_chars > 0
                    THEN SegmentTruncation(prefix, parts, suffix, remaining_chars)
                    ELSE SimpleTruncation(name)
            ELSE SimpleTruncation(name)
    ELSE name

\* lines 214-218: the copy of one tool
ValidTool(tool) ==
    << Item("name", JStr(ValidName(DictGet(tool, "name").v))),
       Item("description",
            IF DictHas(tool, "description") THEN DictGet(tool, "description") ELSE JStr("")),
       Item("input_schema",
            IF DictHas(tool, "input_schema") THEN DictGet(tool, "input_schema")
            ELSE JDict(<<>>)) >>

\* validate_tools(tools): tools is a list of dicts that have a name
validate_tools(tools) == [i \in 1..Len(tools) |-> ValidTool(tools[i])]

RECURSIVE Rep(_, _)
\* c * n
Rep(c, n) ==
    IF n <= 0 THEN ""
    ELSE IF n % 2 = 0 THEN LET half == Rep(c, n \div 2) IN half \o half
    ELSE c \o Rep(c, n - 1)

Tool(name) == << Item("name", JStr(name)), Item("description", JStr("calls " \o name)) >>

\* the tools of the agent whose conversation is modelled
AgentTools ==
    << Tool("api_call_get_x"), Tool("api_call_delete_y"),
       Tool("api_call_get_organizations_by_id_members_by_member_id_permissions_list") >>

\* line 277: validated_tools = validate_tools(tools, verbose)
validated_tools == validate_tools(AgentTools)

-----------------------------------------------------------------------------
(* api_call_service.py: api_call_service *)

\* the timeout parameter's default
DefaultTimeout == 30

NoExc == [type |-> "", msg |-> ""]
Exc(type, msg) == [type |-> type, msg |-> msg]

\* what one call of a function did: it returned value, or exc left it;
\* sent lists the requests.request calls it made
Returns(value, sent) == [raised |-> FALSE, value |-> value, exc |-> NoExc, sent |-> sent]
Raises(exc, sent) == [raised |-> TRUE, value |-> <<>>, exc |-> exc, sent |-> sent]

\* the outcome of requests.request: a response, or a RequestException
HttpResponse(status, reason, body) ==
    [kind |-> "response", status_code |-> status, reason |-> reason, body |-> body,
     exc |-> NoExc]
TransportFailure(type, msg) ==
    [kind |-> "exception", status_code |-> 0, reason |-> "",
     body |-> [json |-> FALSE, text |-> "", value |-> JNull], exc |-> Exc(type, msg)]

\* a response body: text that parses as JSON to value, or text that does not parse
JsonBody(value) == [json |-> TRUE, text |-> "", value |-> value]
TextBody(text) == [json |-> FALSE, text |-> text, value |-> JNull]

\* MergeHeaders with the store's value kept where both name a key
MergeHeaders_DefaultsWin(store, headers) ==
    LET RECURSIVE Over(_, _)
        Over(acc, i) ==
            IF i > Len(headers.v) THEN acc
            ELSE Over(IF DictHas(acc, headers.v[i].k) THEN acc
                      ELSE DictSet(acc, headers.v[i].k, headers.v[i].v), i + 1)
    IN IF Falsy(headers) THEN get_default_headers(store)
       ELSE Over(get_default_headers(store), 1)

\* lines 72-78: the store's copy, overridden per key by the call's headers
MergeHeaders(store, headers) ==
    LET RECURSIVE Over(_, _)
        Over(acc, i) ==
            IF i > Len(headers.v) THEN acc
            ELSE Over(DictSet(acc, headers.v[i].k, headers.v[i].v), i + 1)
    IN IF Falsy(headers) THEN get_default_headers(store)
       ELSE Over(get_default_headers(store), 1)

\* DebugInfo with the effective headers left as they are sent
DebugInfo_Unmasked(url, method, requestBody, params, request_headers) ==
    << Item("method", method),
       Item("url", url),
       Item("headers", JDict(request_headers)),
       Item("params", params),
       Item("requestBody", requestBody) >>

\* lines 82-89
DebugInfo(url, method, requestBody, params, request_headers) ==
    << Item("method", method),
       Item("url", url),
       Item("headers", JDict(mask_sensitive_headers(request_headers))),
       Item("params", params),
       Item("requestBody", requestBody) >>

\* lines 97-104: the arguments of requests.request
HttpRequest(url, method, requestBody, params, request_headers) ==
    [method |-> method, url |-> url, json |-> requestBody, params |-> params,
     headers |-> request_headers, timeout |-> DefaultTimeout]

\* lines 129-133
StatusErrorMessage(status, reason) ==
    "API call failed with status code " \o ToString(status)
        \o (IF reason # "" THEN ": " \o reason ELSE "")

AuthFailedMessage == "Authentication failed (401): Check your API key"
ForbiddenMessage == "Access forbidden (403): Check your API key permissions"

\* lines 127-153, for a result that is a dict. result_data is the parsed body:
\* when it is a dict it is the same object as result, so it is read here
\* after the assignments to result
ErrorDetails(result0, status, reason, debug_info, dataIsDict) ==
    LET r1 == DictSet(result0, "error", JStr(StatusErrorMessage(status, reason)))
        r2 == DictSet(r1, "request", JDict(debug_info))
        r3 == IF status = 401 THEN DictSet(r2, "error", JStr(AuthFailedMessage))
              ELSE IF status = 403 THEN DictSet(r2, "error", JStr(ForbiddenMessage))
              ELSE r2
        result_data == r3
    IN IF ~dataIsDict THEN r3
       ELSE IF DictHas(result_data, "message")
            THEN DictSet(r3, "error_message", DictGet(result_data, "message"))
       ELSE IF DictHas(result_data, "error")
            THEN IF /\ DictGet(result_data, "error").t = "dict"
                    /\ DictHas(DictGet(result_data, "error").v, "message")
                 THEN DictSet(r3, "error_message",
                              DictGet(DictGet(result_data, "error").v, "message"))
                 ELSE DictSet(r3, "error_message", DictGet(result_data, "error"))
       ELSE r3

\* MergeStatus with a status_code of the body left in place
MergeStatus_KeepsBodyStatus(result_data, sc) ==
    IF DictHas(result_data.v, "status_code") THEN result_data.v
    ELSE DictSet(result_data.v, "status_code", sc)

\* lines 121-122: result = result_data; result["status_code"] = response.status_code
MergeStatus(result_data, sc) == DictSet(result_data.v, "status_code", sc)

\* lines 112-155: the response turned into the result
HandleResponse(resp, debug_info, sent) ==
    LET status == resp.status_code
        sc == JNum(status)
    IN IF resp.body.json
       THEN LET result_data == resp.body.value
            IN IF result_data.t = "list"
               THEN LET result == <<Item("data", result_data), Item("status_code", sc)>>
                    IN Returns(IF status >= 400
                               THEN ErrorDetails(result, status, resp.reason, debug_info, FALSE)
                               ELSE result, sent)
               ELSE IF result_data.t = "dict"
               THEN LET result == MergeStatus(result_data, sc)
                    IN Returns(IF status >= 400
                               THEN ErrorDetails(result, status, resp.reason, debug_info, TRUE)
                               ELSE result, sent)
               \* line 122 on a JSON scalar: item assignment is not supported
               ELSE Raises(Exc("TypeError",
                               "'" \o TypeName(result_data)
                                   \o "' object does not support item assignment"), sent)
       ELSE LET result == <<Item("text", JStr(resp.body.text)), Item("status_code", sc)>>
            IN IF status >= 400
               \* line 146 reads result_data, which line 114 never bound
               THEN Raises(Exc("UnboundLocalError",
                               "cannot access local variable 'result_data' where it is not associated with a value"),
                           sent)
               ELSE Returns(result, sent)

\* api_call_service(url, method, requestBody, params, headers) against the
\* header store, with outcome what requests.request does if it is called
api_call_service(url, method, requestBody, params, headers, store, outcome) ==
    IF Falsy(url) THEN Returns(<<Item("error", JStr("URL is required"))>>, <<>>)
    ELSE IF Falsy(method) THEN Returns(<<Item("error", JStr("Method is required"))>>, <<>>)
    ELSE
      LET request_headers == MergeHeaders(store, headers)
          debug_info == DebugInfo(url, method, requestBody, params, request_headers)
          sent == <<HttpRequest(url, method, requestBody, params, request_headers)>>
      IN IF outcome.kind = "exception"
         THEN Returns(<< Item("error", JStr("Request failed: " \o outcome.exc.msg)),
                         Item("exception_type", JStr(outcome.exc.type)),
                         Item("request", JDict(debug_info)),
                         Item("status_code", JNum(500)) >>, sent)
         ELSE HandleResponse(outcome, debug_info, sent)

\* lines 72-78 write to request_headers, the deep copy get_default_headers
\* made (line 41): the store is after the call what it was before
StoreAfterApiCall(store, args) == store

-----------------------------------------------------------------------------
(* logger.py: the record each log function hands to log_dict *)

\* log_request, logger.py lines 221-235: the headers are masked here
LogRequestRecord(method, url, headers, params, data) ==
    JDict(<< Item("type", JStr("request")),
             Item("method", method),
             Item("url", url),
             Item("headers", JDict(mask_sensitive_headers(headers))),
             Item("params", params),
             Item("data", data) >>)

\* log_response, logger.py lines 237-266: the parsed body, or the raw text
\* when the body is not JSON
LogResponseRecord(resp) ==
    IF resp.body.json
    THEN JDict(<< Item("type", JStr("response")),
                  Item("status_code", JNum(resp.status_code)),
                  Item("data", resp.body.value) >>)
    ELSE JDict(<< Item("type", JStr("response_text")),
                  Item("text", JStr(resp.body.text)) >>)

\* ApiLogs with the request logged before url and method are looked at
ApiLogs_BeforeChecks(args, store) ==
    <<LogRequestRecord(args.method, args.url, MergeHeaders(store, args.headers),
                       args.params, args.requestBody)>>
    \o (IF ~Falsy(args.url) /\ ~Falsy(args.method) /\ args.outcome.kind = "response"
        THEN <<LogResponseRecord(args.outcome)>> ELSE <<>>)

\* api_call_service.py lines 92 and 110: the records one call of
\* api_call_service logs
ApiLogs(args, store) ==
    IF Falsy(args.url) \/ Falsy(args.method) THEN <<>>
    ELSE <<LogRequestRecord(args.method, args.url, MergeHeaders(store, args.headers),
                            args.params, args.requestBody)>>
         \o (IF args.outcome.kind = "response"
             THEN <<LogResponseRecord(args.outcome)>> ELSE <<>>)

-----------------------------------------------------------------------------
(* main.py: process_tool_use *)

\* content parts of a model response
TextPart(text) == [type |-> "text", text |-> text]
ToolUsePart(id, name, input) == [type |-> "tool_use", id |-> id, name |-> name, input |-> input]

\* str.startswith
StartsWith(s, p) == Len(s) >= Len(p) /\ SubSeq(s, 1, Len(p)) = p

\* traceback.format_exc() of the exception being handled
FormatExc(exc) == "Traceback (most recent call last): " \o exc.type \o ": " \o exc.msg

\* time.strftime and the measured duration are not decided by the program
Timestamp == "2026-01-01 00:00:00"
Duration == JNum(0)

\* ToolExecution with success decided by the status code alone
ToolExecution_SuccessByStatus(tool_use, tool_result) ==
    LET failed == /\ DictHas(tool_result, "status_code")
                  /\ DictGet(tool_result, "status_code").v >= 400
    IN [tool_name |-> tool_use.name,
        timestamp |-> Timestamp,
        input |-> tool_use.input,
        result |-> JDict(tool_result),
        duration |-> Duration,
        success |-> ~failed,
        error_details |->
            IF failed
            THEN JDict(<< Item("message", DictGet(tool_result, "error")),
                          Item("status_code", DictGet(tool_result, "status_code")),
                          Item("response", JDict(tool_result)) >>)
            ELSE JNull]

\* lines 57-65 and 96-116: the record of a call that returned tool_result
ToolExecution(tool_use, tool_result) ==
    LET failed == DictHas(tool_result, "error")
    IN [tool_name |-> tool_use.name,
        timestamp |-> Timestamp,
        input |-> tool_use.input,
        result |-> JDict(tool_result),
        duration |-> Duration,
        success |-> ~failed,
        error_details |->
            IF failed
            THEN JDict(<< Item("message", DictGet(tool_result, "error")),
                          Item("status_code",
                               IF DictHas(tool_result, "status_code")
                               THEN DictGet(tool_result, "status_code")
                               ELSE JStr("unknown")),
                          Item("response", JDict(tool_result)) >>)
            ELSE JNull]

\* what process_tool_use hands back: None, or {tool_use_id, content}
NoToolResult == [none |-> TRUE]
ToolResult(id, content) == [none |-> FALSE, tool_use_id |-> id, content |-> content]

\* line 169: the records the call appends to tool_execution_history. The
\* except branch (lines 118-144) returns before line 169 is reached
HistoryAppended(tool_use, api) ==
    IF api.raised THEN <<>> ELSE <<ToolExecution(tool_use, api.value)>>

\* AppendToHistory with the new records put first
AppendToHistory_AtFront(history, records) == records \o history

\* line 169: tool_execution_history.append(tool_execution)
AppendToHistory(history, records) == history \o records

\* ToolResultOf with an except branch that returns nothing
ToolResultOf_NoneOnRaise(tool_use, api) ==
    IF api.raised
    THEN NoToolResult
    ELSE ToolResult(tool_use.id, json_dumps(JDict(api.value)))

\* lines 141-144 and 183-186: the returned tool result
ToolResultOf(tool_use, api) ==
    IF api.raised
    THEN ToolResult(tool_use.id,
                    json_dumps(JDict(<< Item("error", JStr(api.exc.msg)),
                                        Item("details", JStr(FormatExc(api.exc))) >>)))
    ELSE ToolResult(tool_use.id, json_dumps(JDict(api.value)))

\* line 79 with every tool name taken for an HTTP tool
IsDispatched_AnyName(tool_use) == TRUE

\* line 79
IsDispatched(tool_use) == StartsWith(tool_use.name, "api_call")

\* lines 83-93: the executor call the tool invocation leads to
DispatchArgs(tool_use, outcome) ==
    [url |-> DictGetOrNone(tool_use.input, "url"),
     method |-> DictGetOrNone(tool_use.input, "method"),
     requestBody |-> DictGetOrNone(tool_use.input, "requestBody"),
     params |-> DictGetOrNone(tool_use.input, "params"),
     headers |-> DictGetOrNone(tool_use.input, "headers"),
     outcome |-> outcome]

ApiCall(args, store) ==
    api_call_service(args.url, args.method, args.requestBody, args.params,
                     args.headers, store, args.outcome)

\* log_tool_execution, logger.py lines 268-280, called at main.py lines
\* 150-156: the tool's input and result as they are
LogToolExecutionRecord(tool_name, tool_input, result, duration, success) ==
    JDict(<< Item("type", JStr("tool_execution")),
             Item("tool_name", JStr(tool_name)),
             Item("input", JDict(tool_input)),
             Item("result", result),
             Item("duration", duration),
             Item("success", JBool(success)) >>)

\* main.py lines 150-156 are reached only when the executor call returned
ToolExecutionLogs(tool_use, api) ==
    IF api.raised THEN <<>>
    ELSE LET rec == ToolExecution(tool_use, api.value)
         IN <<LogToolExecutionRecord(rec.tool_name, rec.input, rec.result,
                                     rec.duration, rec.success)>>

\* a content block as a mapping: sanitize_for_logging, logger.py lines 156-171
BlockAsDict(part) ==
    IF part.type = "text"
    THEN JDict(<<Item("type", JStr("text")), Item("text", JStr(part.text))>>)
    ELSE JDict(<< Item("type", JStr("tool_use")),
                  Item("name", JStr(part.name)),
                  Item("input", JDict(part.input)) >>)

\* str(block) of a content block object: its fields, in text
BlockRepr(part) == [t |-> "repr", v |-> BlockAsDict(part)]

\* log_claude_request, logger.py lines 282-311: dict items of a list content
\* are kept, block objects become {type, str}
LoggedMessage(m) ==
    JDict(<< Item("role", JStr(m.role)),
             Item("content",
                  IF m.content.t = "blocks"
                  THEN JList([i \in 1..Len(m.content.v) |->
                            JDict(<< Item("type", JStr(IF m.content.v[i].type = "text"
                                                        THEN "TextBlock" ELSE "ToolUseBlock")),
                                     Item("str", BlockRepr(m.content.v[i])) >>)])
                  ELSE IF m.content.t = "list"
                  THEN JList([i \in 1..Len(m.content.v) |->
                            JDict(<< Item("type", JStr(m.content.v[i].type)),
                                     Item("tool_use_id", JStr(m.content.v[i].tool_use_id)),
                                     Item("content", [t |-> "json", v |-> m.content.v[i].content]) >>)])
                  ELSE m.content) >>)

\* the call log_claude_request(messages, ...): logged keeps its argument
LogClaudeRequestRecord(msgs) == [t |-> "claude_request", v |-> msgs]

\* the dict an entry of logged stands for: log_claude_request builds it from
\* its messages argument, logger.py lines 286-311; the other entries are it
LogDictData(rec) ==
    IF rec.t = "claude_request"
    THEN JDict(<< Item("type", JStr("claude_request")),
                  Item("messages",
                       JList([i \in 1..Len(rec.v) |-> LoggedMessage(rec.v[i])])) >>)
    ELSE rec

\* log_claude_response, logger.py lines 313-325
LogClaudeResponseRecord(resp) ==
    JDict(<< Item("type", JStr("claude_response")),
             Item("response",
                  JDict(<<Item("content",
                      JList([i \in 1..Len(resp.content) |-> BlockAsDict(resp.content[i])]))>>)) >>)

\* process_tool_use(tool_use, ...): the returned value, the records appended
\* to the history, and the executor call made (if any)
process_tool_use(tool_use, store, outcome) ==
    IF IsDispatched(tool_use)
    THEN LET api == ApiCall(DispatchArgs(tool_use, outcome), store)
         IN [result |-> ToolResultOf(tool_use, api),
             appended |-> HistoryAppended(tool_use, api),
             dispatched |-> TRUE,
             api |-> api,
             logs |-> ApiLogs(DispatchArgs(tool_use, outcome), store)
                        \o ToolExecutionLogs(tool_use, api)]
    ELSE [result |-> NoToolResult,
          appended |-> <<>>,
          dispatched |-> FALSE,
          api |-> Returns(<<>>, <<>>),
          logs |-> <<>>]

-----------------------------------------------------------------------------
(* The environment: what the model, the network and the caller supply *)

\* at most this many choices of one run leave the default exchange
MaxVaried == 1

ExampleUrl == JStr("https://api.example.com/x")

BearerToken == "Bearer secrettoken123"

\* header stores a call can find: the initial one, and one after
\* set_default_header("Authorization", ...)
StoreStates ==
    { InitialDefaultHeaders,
      DictSet(InitialDefaultHeaders, "Authorization", JStr(BearerToken)) }

\* per-call headers
HeaderInputs ==
    { JNull,
      JDict(<<>>),
      JDict(<< Item("X-Api-Key", JStr("abcd1234efgh")), Item("Accept", JStr("text/plain")) >>) }

\* response bodies
OkBody == JsonBody(JDict(<<Item("ok", JBool(TRUE))>>))
Bodies ==
    { OkBody,
      JsonBody(JDict(<<Item("message", JStr("quota exceeded"))>>)),
      JsonBody(JDict(<<Item("error", JStr("not found"))>>)),
      JsonBody(JDict(<<Item("error", JDict(<<Item("message", JStr("nested detail"))>>))>>)),
      JsonBody(JDict(<<Item("message", JStr("quota exceeded")), Item("error", JStr("not found"))>>)),
      JsonBody(JDict(<<Item("status_code", JNum(999)), Item("id", JNum(14))>>)),
      JsonBody(JList(<<JNum(1), JNum(2)>>)),
      JsonBody(JNum(5)),
      JsonBody(JStr("pong")),
      JsonBody(JNull),
      TextBody("<html>not json</html>") }

\* status codes with the reason phrase the server sends (possibly none)
StatusLines ==
    { <<200, "OK">>, <<399, "">>, <<400, "Bad Request">>, <<401, "Unauthorized">>,
      <<403, "Forbidden">>, <<404, "Not Found">>, <<404, "">>, <<500, "Internal Server Error">> }

\* transport failures: subclasses of requests.RequestException
TransportFailures ==
    { TransportFailure("ConnectionError", "Connection refused"),
      TransportFailure("Timeout", "Read timed out") }

HttpOutcomes ==
    { HttpResponse(sl[1], sl[2], b) : sl \in StatusLines, b \in Bodies }
        \cup TransportFailures

DefaultOutcome == HttpResponse(200, "OK", OkBody)

\* arguments of a direct call of api_call_service
ApiInputs ==
    [url : {JNull, JStr(""), ExampleUrl},
     method : {JNull, JStr("GET")},
     requestBody : {JNull},
     params : {JNull, JDict(<<Item("page", JNum(2))>>)},
     headers : HeaderInputs,
     outcome : HttpOutcomes]

NoApiIn ==
    [url |-> JNull, method |-> JNull, requestBody |-> JNull, params |-> JNull,
     headers |-> JNull, outcome |-> DefaultOutcome]

\* apiOut before any call, and after one
ApiIdle == [called |-> FALSE]
ApiDone(api) ==
    [called |-> TRUE, raised |-> api.raised, value |-> api.value, exc |-> api.exc,
     sent |-> api.sent]

\* the id the model gives the i-th part of its n-th response
ToolId(n, i) == "toolu_" \o ToString(n) \o "_" \o ToString(i)

DefaultInput == <<Item("url", ExampleUrl), Item("method", JStr("GET"))>>

\* the default exchange: one reserved-prefix invocation answered by 200 {"ok": true}
DefaultContent(n) ==
    <<TextPart("calling the API"), ToolUsePart(ToolId(n, 2), "api_call_get_x", DefaultInput)>>

\* other tool-bearing responses: url missing, method missing, a name outside the
\* reserved prefix, two invocations, per-call credentials
VariedContents(n) ==
    { <<ToolUsePart(ToolId(n, 1), "api_call_get_x", <<Item("method", JStr("GET"))>>)>>,
      <<ToolUsePart(ToolId(n, 1), "api_call_get_x", <<Item("url", ExampleUrl)>>)>>,
      <<ToolUsePart(ToolId(n, 1), "search_docs", DefaultInput)>>,
      <<ToolUsePart(ToolId(n, 1), "api_call_get_x", DefaultInput),
        ToolUsePart(ToolId(n, 2), "api_call_delete_y",
                    <<Item("url", JStr("https://api.example.com/y")),
                      Item("method", JStr("DELETE"))>>)>>,
      <<TextPart("with my key"),
        ToolUsePart(ToolId(n, 2), "api_call_get_x",
                    DefaultInput \o <<Item("headers",
                        JDict(<<Item("Authorization", JStr("Bearer percalltoken9"))>>))>>)>> }

\* a response without any tool_use part
TextOnlyContent == <<TextPart("final answer")>>

\* what the network does to a tool call inside the loop
LoopOutcomes ==
    { DefaultOutcome,
      TransportFailure("ConnectionError", "Connection refused"),
      HttpResponse(404, "Not Found", JsonBody(JDict(<<Item("error", JStr("not found"))>>))),
      HttpResponse(404, "Not Found", TextBody("<html>not json</html>")),
      HttpResponse(200, "OK", JsonBody(JNull)),
      HttpResponse(200, "OK", JsonBody(JDict(<<Item("error", JStr("not found"))>>))) }

\* the error of a failing model call
ModelErrors == { Exc("APIConnectionError", "Connection error.") }

UserQuery == "Get the type-correction with id 14"

-----------------------------------------------------------------------------
(* main.py: chat_with_claude *)

\* line 274
max_iterations == 10

\* a model response; n tells the responses of one run apart
Response(n, content) == [n |-> n, content |-> content]
NoResponse == Response(0, <<>>)

\* the loop test stopping one iteration early
LoopContinues_OneShort(i) == i < max_iterations - 1

\* the loop test letting one more iteration through
LoopContinues_OffByOne(i) == i <= max_iterations

\* line 280: the loop test
LoopContinues(i) == i < max_iterations

\* the scan without its break: the last tool_use part, 0 when there is none
FirstToolUse_Last(content) ==
    IF \E i \in 1..Len(content) : content[i].type = "tool_use"
    THEN CHOOSE i \in 1..Len(content) :
            /\ content[i].type = "tool_use"
            /\ \A j \in (i + 1)..Len(content) : content[j].type # "tool_use"
    ELSE 0

\* lines 335-339: the first tool_use part, 0 when there is none
FirstToolUse(content) ==
    IF \E i \in 1..Len(content) : content[i].type = "tool_use"
    THEN CHOOSE i \in 1..Len(content) :
            /\ content[i].type = "tool_use"
            /\ \A j \in 1..(i - 1) : content[j].type # "tool_use"
    ELSE 0

\* lines 357-372: the two messages an executed tool call adds
AssistantMessage(resp) == [role |-> "assistant", content |-> [t |-> "blocks", v |-> resp.content]]

\* ToolResultMessage with the assistant's role
ToolResultMessage_AsAssistant(tool_result) ==
    [role |-> "assistant",
     content |-> JList(<< [type |-> "tool_result",
                           tool_use_id |-> tool_result.tool_use_id,
                           content |-> tool_result.content] >>)]

\* lines 364-372: the user message that carries the tool result
ToolResultMessage(tool_result) ==
    [role |-> "user",
     content |-> JList(<< [type |-> "tool_result",
                           tool_use_id |-> tool_result.tool_use_id,
                           content |-> tool_result.content] >>)]

\* MessagesAfterTool with the tool result appended before the assistant message
MessagesAfterTool_Swapped(msgs, resp, tool_result) ==
    IF tool_result.none THEN msgs
    ELSE msgs \o <<ToolResultMessage(tool_result), AssistantMessage(resp)>>

\* lines 355-372
MessagesAfterTool(msgs, resp, tool_result) ==
    IF tool_result.none THEN msgs
    ELSE msgs \o <<AssistantMessage(resp), ToolResultMessage(tool_result)>>

\* no caller has used the header store, the masker or the validator
NoCallYet ==
    /\ op = ""
    /\ callArg = <<>>
    /\ callResult = [called |-> FALSE]
    /\ setLog = <<>>
    /\ queries = <<>>

\* lines 263-264, with messages None
Init ==
    /\ _default_headers \in StoreStates
    /\ apiIn = NoApiIn
    /\ apiOut = ApiIdle
    /\ pc = "call"
    /\ iteration = 0
    /\ messages = << [role |-> "user", content |-> JStr(UserQuery)] >>
    /\ response = NoResponse
    /\ returned = NoResponse
    /\ raisedExc = NoExc
    /\ tool_execution_history = <<>>
    /\ modelCalls = 0
    /\ lastRequest = <<>>
    /\ sentTools = <<>>
    /\ httpLog = <<>>
    /\ varied = 0
    /\ logged = <<>>
    /\ NoCallYet

\* ModelCallRaises with the run's conversation and history rolled back
ModelCallRaises_RollsBack ==
    /\ pc = "call"
    /\ \E e \in ModelErrors :
        /\ iteration' = iteration + 1
        /\ modelCalls' = modelCalls + 1
        /\ lastRequest' = messages
        /\ sentTools' = validated_tools
        /\ pc' = "raised"
        /\ raisedExc' = e
    /\ messages' = SubSeq(messages, 1, 1)
    /\ tool_execution_history' = <<>>
    /\ logged' = <<LogClaudeRequestRecord(messages)>>
    /\ UNCHANGED <<_default_headers, apiIn, apiOut, response, returned, httpLog, varied>>
    /\ UNCHANGED callVars

\* lines 280-318 when messages.create raises: the exception is re-raised
ModelCallRaises ==
    /\ pc = "call"
    /\ \E e \in ModelErrors :
        /\ iteration' = iteration + 1
        /\ modelCalls' = modelCalls + 1
        /\ lastRequest' = messages
        /\ sentTools' = validated_tools
        /\ pc' = "raised"
        /\ raisedExc' = e
    /\ logged' = <<LogClaudeRequestRecord(messages)>>
    /\ UNCHANGED <<_default_headers, apiIn, apiOut, messages, response, returned,
                   tool_execution_history, httpLog, varied>>
    /\ UNCHANGED callVars

\* ModelCallResponds with the final response appended to the conversation
ModelCallResponds_AppendsFinal ==
    /\ pc = "call"
    /\ \E c \in {TextOnlyContent, DefaultContent(modelCalls + 1)}
                    \cup VariedContents(modelCalls + 1) :
        LET cost == IF c \in VariedContents(modelCalls + 1) THEN 1 ELSE 0
            resp == Response(modelCalls + 1, c)
        IN /\ varied + cost <= MaxVaried
           /\ varied' = varied + cost
           /\ iteration' = iteration + 1
           /\ modelCalls' = modelCalls + 1
           /\ lastRequest' = messages
           /\ sentTools' = validated_tools
           /\ response' = resp
           /\ logged' = <<LogClaudeRequestRecord(messages), LogClaudeResponseRecord(resp)>>
           /\ IF FirstToolUse(c) = 0
              THEN /\ pc' = "returned" /\ returned' = resp
                   /\ messages' = Append(messages, AssistantMessage(resp))
              ELSE /\ pc' = "tool" /\ returned' = returned
                   /\ messages' = messages
    /\ UNCHANGED <<_default_headers, apiIn, apiOut, raisedExc,
                   tool_execution_history, httpLog>>
    /\ UNCHANGED callVars

\* lines 280-347 when messages.create answers: the response is scanned for its
\* first tool_use part and returned if there is none
ModelCallResponds ==
    /\ pc = "call"
    /\ \E c \in {TextOnlyContent, DefaultContent(modelCalls + 1)}
                    \cup VariedContents(modelCalls + 1) :
        LET cost == IF c \in VariedContents(modelCalls + 1) THEN 1 ELSE 0
            resp == Response(modelCalls + 1, c)
        IN /\ varied + cost <= MaxVaried
           /\ varied' = varied + cost
           /\ iteration' = iteration + 1
           /\ modelCalls' = modelCalls + 1
           /\ lastRequest' = messages
           /\ sentTools' = validated_tools
           /\ response' = resp
           /\ logged' = <<LogClaudeRequestRecord(messages), LogClaudeResponseRecord(resp)>>
           /\ IF FirstToolUse(c) = 0
              THEN pc' = "returned" /\ returned' = resp
              ELSE pc' = "tool" /\ returned' = returned
    /\ UNCHANGED <<_default_headers, apiIn, apiOut, messages, raisedExc,
                   tool_execution_history, httpLog>>
    /\ UNCHANGED callVars

\* lines 352-379: the first tool_use part is processed, its result (if any) is
\* appended to the conversation, and the loop test decides between the next
\* iteration and returning the last response
ToolStep ==
    /\ pc = "tool"
    /\ \E outcome \in LoopOutcomes :
        LET tool_use == response.content[FirstToolUse(response.content)]
            done == process_tool_use(tool_use, _default_headers, outcome)
            cost == IF outcome = DefaultOutcome THEN 0 ELSE 1
        IN \* the network's answer matters only to a call that reaches the network
           /\ outcome # DefaultOutcome => done.api.sent # <<>>
           /\ varied + cost <= MaxVaried
           /\ varied' = varied + cost
           /\ tool_execution_history' =
                 AppendToHistory(tool_execution_history, done.appended)
           /\ messages' = MessagesAfterTool(messages, response, done.result)
           /\ httpLog' = httpLog \o done.api.sent
           /\ logged' = done.logs
           /\ IF done.dispatched
              THEN /\ apiIn' = DispatchArgs(tool_use, outcome)
                   /\ apiOut' = ApiDone(done.api)
                   /\ _default_headers' =
                        StoreAfterApiCall(_default_headers, DispatchArgs(tool_use, outcome))
              ELSE UNCHANGED <<apiIn, apiOut, _default_headers>>
           /\ IF LoopContinues(iteration)
              THEN pc' = "call" /\ returned' = returned
              ELSE pc' = "returned" /\ returned' = response
    /\ UNCHANGED <<iteration, response, raisedExc, modelCalls, lastRequest, sentTools>>
    /\ UNCHANGED callVars

Next == ModelCallRaises \/ ModelCallResponds \/ ToolStep

Spec == Init /\ [][Next]_vars

-----------------------------------------------------------------------------
(* api_call_service called directly, on every input and HTTP outcome *)

InitApi ==
    /\ _default_headers \in StoreStates
    /\ apiIn \in ApiInputs
    /\ apiOut = ApiIdle
    /\ pc = "idle"
    /\ iteration = 0
    /\ messages = <<>>
    /\ response = NoResponse
    /\ returned = NoResponse
    /\ raisedExc = NoExc
    /\ tool_execution_history = <<>>
    /\ modelCalls = 0
    /\ lastRequest = <<>>
    /\ sentTools = <<>>
    /\ httpLog = <<>>
    /\ varied = 0
    /\ logged = <<>>
    /\ NoCallYet

CallApi ==
    /\ pc = "idle"
    /\ ~apiOut.called
    /\ LET api == ApiCall(apiIn, _default_headers)
       IN /\ apiOut' = ApiDone(api)
          /\ httpLog' = httpLog \o api.sent
          /\ logged' = ApiLogs(apiIn, _default_headers)
          /\ _default_headers' = StoreAfterApiCall(_default_headers, apiIn)
    /\ UNCHANGED <<apiIn, loopVars, callVars>>

NextApi == CallApi

SpecApi == InitApi /\ [][NextApi]_vars

-----------------------------------------------------------------------------
(* Claims about chat_with_claude's bound *)

\* C1: one call of chat_with_claude makes at most 10 model calls, makes no
\* model call after the 10th, and once 10 calls are made and the 10th
\* response's tool call is processed it has returned that 10th response; only
\* a failing model call makes it raise.
C1_AtMostTenModelCalls ==
    /\ modelCalls <= 10
    /\ iteration = modelCalls
    /\ pc = "call" => modelCalls < 10
    /\ (modelCalls = 10 /\ pc \notin {"tool", "raised"}) =>
            (pc = "returned" /\ returned.n = 10)
    /\ pc = "returned" => (returned = response /\ returned.n = modelCalls)
    /\ pc = "raised" => (raisedExc \in ModelErrors /\ response.n < modelCalls)

\* the 10th response still carried a tool invocation and was returned
C1_Witness ==
    /\ pc = "returned"
    /\ modelCalls = 10
    /\ returned.n = 10
    /\ FirstToolUse(returned.content) # 0

-----------------------------------------------------------------------------
(* Claims about api_call_service, checked under SpecApi *)

\* the call went past the url/method checks
ReachesNetwork(in) == ~Falsy(in.url) /\ ~Falsy(in.method)

\* the effective headers of a call, stated per key: the call's value where the
\* call names the key, the store's value otherwise
EffectiveValue(store, in, key) ==
    IF in.headers.t = "dict" /\ DictHas(in.headers.v, key)
    THEN DictGet(in.headers.v, key)
    ELSE DictGet(store, key)

EffectiveKeys(store, in) ==
    DictKeys(store) \cup (IF in.headers.t = "dict" THEN DictKeys(in.headers.v) ELSE {})

\* snap is the request snapshot of a result: its headers are the effective
\* headers with every sensitive value replaced by its mask
IsMaskedSnapshot(snap, store, in) ==
    /\ snap.t = "dict"
    /\ DictHas(snap.v, "headers")
    /\ LET h == DictGet(snap.v, "headers").v
       IN /\ DictKeys(h) = EffectiveKeys(store, in)
          /\ Len(h) = Cardinality(EffectiveKeys(store, in))
          /\ \A key \in DictKeys(h) :
                LET sent == EffectiveValue(store, in, key).v
                IN IF Lower(key) \in sensitive_headers
                   THEN /\ DictGet(h, key).v # sent
                        /\ DictGet(h, key).v \in {"********", "Bearer ********", "abcd********"}
                   ELSE DictGet(h, key).v = sent

\* C2: api_call_service never raises to its caller, whatever the HTTP outcome.
C2_NeverRaises == apiOut.called => ~apiOut.raised

\* C3: on a transport failure api_call_service returns status_code 500, a
\* non-empty error, the exception type, and a request snapshot with the masked
\* effective headers.
C3_TransportFailureResult ==
    (apiOut.called /\ ReachesNetwork(apiIn) /\ apiIn.outcome.kind = "exception") =>
        /\ ~apiOut.raised
        /\ DictKeys(apiOut.value) = {"error", "exception_type", "request", "status_code"}
        /\ DictGet(apiOut.value, "status_code") = JNum(500)
        /\ DictGet(apiOut.value, "error").t = "str"
        /\ DictGet(apiOut.value, "error").v # ""
        /\ DictGet(apiOut.value, "exception_type") = JStr(apiIn.outcome.exc.type)
        /\ IsMaskedSnapshot(DictGet(apiOut.value, "request"), _default_headers, apiIn)

\* a timeout with a credential in the store
C3_Witness ==
    /\ apiOut.called
    /\ ReachesNetwork(apiIn)
    /\ apiIn.outcome.kind = "exception"
    /\ apiIn.outcome.exc.type = "Timeout"
    /\ DictHas(_default_headers, "Authorization")
    /\ DictGet(apiOut.value, "status_code") = JNum(500)

\* the response bodies C4 names: a JSON mapping, a JSON list, non-JSON text
IsMappingListOrText(body) == ~body.json \/ body.value.t \in {"dict", "list"}

\* C4: for every response with status >= 400, whatever its body, the result
\* carries the response's status_code, an error and a masked request snapshot;
\* 401 gives the authentication-failed message, 403 the access-forbidden one.
C4_ErrorStatusResult ==
    (/\ apiOut.called
     /\ ReachesNetwork(apiIn)
     /\ apiIn.outcome.kind = "response"
     /\ apiIn.outcome.status_code >= 400
     /\ IsMappingListOrText(apiIn.outcome.body)) =>
        /\ ~apiOut.raised
        /\ DictHas(apiOut.value, "status_code")
        /\ DictGet(apiOut.value, "status_code") = JNum(apiIn.outcome.status_code)
        /\ DictHas(apiOut.value, "error")
        /\ DictGet(apiOut.value, "error").v # ""
        /\ DictHas(apiOut.value, "request")
        /\ IsMaskedSnapshot(DictGet(apiOut.value, "request"), _default_headers, apiIn)
        /\ apiIn.outcome.status_code = 401 =>
                DictGet(apiOut.value, "error") = JStr(AuthFailedMessage)
        /\ apiIn.outcome.status_code = 403 =>
                DictGet(apiOut.value, "error") = JStr(ForbiddenMessage)

\* C5: for a status >= 400 whose body is a mapping with its own message field,
\* or with its own error field and no message, error_message is the value the
\* body carried in that field.
C5_ErrorMessageFromBody ==
    (/\ apiOut.called
     /\ ReachesNetwork(apiIn)
     /\ apiIn.outcome.kind = "response"
     /\ apiIn.outcome.status_code >= 400
     /\ apiIn.outcome.body.json
     /\ apiIn.outcome.body.value.t = "dict") =>
        LET body == apiIn.outcome.body.value.v
        IN /\ DictHas(body, "message") =>
                /\ ~apiOut.raised
                /\ DictHas(apiOut.value, "error_message")
                /\ DictGet(apiOut.value, "error_message") = DictGet(body, "message")
           /\ (DictHas(body, "error") /\ ~DictHas(body, "message")) =>
                /\ ~apiOut.raised
                /\ DictHas(apiOut.value, "error_message")
                /\ DictGet(apiOut.value, "error_message") = DictGet(body, "error")

-----------------------------------------------------------------------------
(* Claims about the loop of chat_with_claude, checked under Spec *)

\* the tool_use part the pending response makes the loop process
PendingToolUse == response.content[FirstToolUse(response.content)]

\* the executor call of this step ended in a validation error, a transport
\* error or an HTTP status >= 400
FailedCall(in) ==
    \/ Falsy(in.url)
    \/ Falsy(in.method)
    \/ in.outcome.kind = "exception"
    \/ in.outcome.status_code >= 400

\* the JSON text has an "error" member with a non-empty string value
EncodesError(content) ==
    \E i \in 1..(Len(content) - 2) :
        /\ content[i] = Tok("string", "error")
        /\ content[i + 1] = Punct(":")
        /\ content[i + 2].kind = "string"
        /\ content[i + 2].text # ""

IsToolResultMessage(m) ==
    /\ m.role = "user"
    /\ m.content.t = "list"
    /\ Len(m.content.v) = 1
    /\ m.content.v[1].type = "tool_result"

\* the tool_result messages of a conversation
ToolResultCount(msgs) ==
    Cardinality({i \in 1..Len(msgs) : msgs[i].content.t = "list"})

\* C6: when the model call raises, the error leaves chat_with_claude: nothing
\* is returned, no tool call and no further model call is made, and the
\* conversation and the history stay as the earlier iterations left them.
C6_ModelErrorPropagates ==
    [][ /\ pc # "raised"
        /\ pc' = "raised" =>
            /\ pc = "call"
            /\ raisedExc' \in ModelErrors
            /\ modelCalls' = modelCalls + 1
            /\ returned' = NoResponse
            /\ messages' = messages
            /\ tool_execution_history' = tool_execution_history
            /\ httpLog' = httpLog ]_vars

\* the model call failed after earlier iterations had added messages and records
C6_Witness ==
    /\ pc = "raised"
    /\ modelCalls > 1
    /\ Len(messages) > 1
    /\ tool_execution_history # <<>>
    /\ returned = NoResponse

\* C7: a failing tool call never ends the loop: the step that processes a
\* dispatched invocation ending in a validation error, a transport error or a
\* status >= 400 does not raise, appends a tool_result message whose content
\* encodes the error, and goes on to the next model call unless 10 were made.
C7_ToolFailureFedBack ==
    [][ (pc = "tool" /\ IsDispatched(PendingToolUse) /\ FailedCall(apiIn')) =>
            /\ pc' \in {"call", "returned"}
            /\ raisedExc' = NoExc
            /\ modelCalls < 10 => pc' = "call"
            /\ Len(messages') = Len(messages) + 2
            /\ IsToolResultMessage(messages'[Len(messages')])
            /\ EncodesError(messages'[Len(messages')].content.v[1].content) ]_vars

\* a transport error was fed back and the loop is about to call the model again
C7_Witness ==
    /\ pc = "call"
    /\ apiOut.called
    /\ apiIn.outcome.kind = "exception"
    /\ IsToolResultMessage(messages[Len(messages)])
    /\ EncodesError(messages[Len(messages)].content.v[1].content)

\* C8: a response without a tool_use part is returned at once: that iteration
\* makes no tool call and appends nothing to the conversation or the history,
\* nothing happens after the return, and a text-only first response leaves
\* the history empty.
C8_TextOnlyReturnsAtOnce ==
    [][ /\ pc # "returned"
        /\ (pc = "call" /\ pc' # "raised" /\ FirstToolUse(response'.content) = 0) =>
            /\ pc' = "returned"
            /\ returned' = response'
            /\ messages' = messages
            /\ tool_execution_history' = tool_execution_history
            /\ httpLog' = httpLog
            /\ modelCalls' = 1 => tool_execution_history' = <<>> ]_vars

\* the first response was text-only and was returned
C8_Witness ==
    /\ pc = "returned"
    /\ modelCalls = 1
    /\ FirstToolUse(returned.content) = 0
    /\ Len(messages) = 1
    /\ tool_execution_history = <<>>

\* the mapping whose JSON text answers a dispatched invocation: the executor's
\* result, or the error mapping built when the executor raised
AnswerMapping(out) ==
    IF out.raised
    THEN << Item("error", JStr(out.exc.msg)), Item("details", JStr(FormatExc(out.exc))) >>
    ELSE out.value

\* C9: an iteration that dispatches a reserved-prefix invocation appends
\* exactly two messages: the assistant message with the response's content
\* verbatim, then a user message with one tool_result part carrying the
\* invocation's id and the JSON text of the tool result.
C9_TwoMessagesPerDispatch ==
    [][ (pc = "tool" /\ IsDispatched(PendingToolUse)) =>
            /\ Len(messages') = Len(messages) + 2
            /\ SubSeq(messages', 1, Len(messages)) = messages
            /\ messages'[Len(messages) + 1].role = "assistant"
            /\ messages'[Len(messages) + 1].content.v = response.content
            /\ IsToolResultMessage(messages'[Len(messages) + 2])
            /\ LET part == messages'[Len(messages) + 2].content.v[1]
               IN /\ part.tool_use_id = PendingToolUse.id
                  /\ part.content = json_dumps(JDict(AnswerMapping(apiOut'))) ]_vars

\* the first iteration dispatched a call that returned
C9_Witness ==
    /\ Len(messages) = 3
    /\ messages[2].role = "assistant"
    /\ IsToolResultMessage(messages[3])
    /\ apiOut.called
    /\ ~apiOut.raised

\* C10: every dispatched invocation adds exactly one record to the history,
\* whether the executor call completes or raises, so the records added equal
\* the tool_result messages appended; a 200 {"ok": true} answer gives a record
\* with success true.
C10_OneRecordPerDispatch ==
    /\ Len(tool_execution_history) = ToolResultCount(messages)
    /\ (apiOut.called /\ ~apiOut.raised /\ ReachesNetwork(apiIn)
            /\ apiIn.outcome = DefaultOutcome /\ tool_execution_history # <<>>) =>
        tool_execution_history[Len(tool_execution_history)].success

-----------------------------------------------------------------------------
(* Claims about what reaches the log *)

\* the sensitive header values of the header stores and of the tool inputs
SecretValues == {BearerToken, "abcd1234efgh", "Bearer percalltoken9"}

RECURSIVE Mentions(_, _)
\* the logged value x holds the text s: as a string, as a string of a JSON
\* text, or inside the text of a block
Mentions(x, s) ==
    CASE x.t = "str" -> x.v = s
      [] x.t \in {"list"} -> \E i \in 1..Len(x.v) : Mentions(x.v[i], s)
      [] x.t = "dict" -> \E i \in 1..Len(x.v) : Mentions(x.v[i].v, s)
      [] x.t = "json" -> \E i \in 1..Len(x.v) : x.v[i] = Tok("string", s)
      [] x.t = "repr" -> Mentions(x.v, s)
      [] OTHER -> FALSE

\* C11: no record handed to the log holds the unmasked value of a sensitive
\* header, from the header store or from a tool invocation's input.
C11_NoCredentialLogged ==
    \A i \in 1..Len(logged) : \A s \in SecretValues : ~Mentions(LogDictData(logged[i]), s)

-----------------------------------------------------------------------------
(* mask_sensitive_headers called directly, on header mappings of every shape *)

\* the caller's mapping after mask_sensitive_headers(headers) has returned,
\* as the mutating loop would leave it were masked_headers the input itself
HeadersAfterMask_NoCopy(headers) == mask_sensitive_headers(headers)

\* the caller's mapping after mask_sensitive_headers(headers) has returned:
\* the loop assigns into masked_headers, a deepcopy of headers
HeadersAfterMask(headers) == headers

\* header names, sensitive in several spellings and not sensitive
MaskNames ==
    { "Authorization", "authorization", "X-API-Key", "Api-Key", "token", "ApiKey",
      "Content-Type", "Accept", "X-Token" }

\* header values: with and without a space, around 8 characters, empty
MaskValues ==
    { BearerToken, "Basic dXNlcjpwYXNz", "abcd1234efgh", "short", "12345678",
      "123456789", "tok en", "a b c d e f", " leadingspace1", "" }

\* the mappings handed to mask_sensitive_headers
MaskInputs ==
    {<<>>}
    \cup { <<Item(n, JStr(v))>> : n \in MaskNames, v \in MaskValues }
    \cup { <<Item(n[1], JStr(v[1])), Item(n[2], JStr(v[2]))>> :
              n \in {"Authorization", "token"} \X {"Accept", "X-API-Key"},
              v \in MaskValues \X MaskValues }

\* the loop, the direct api call and the header store are not in use
OthersIdle ==
    /\ apiIn = NoApiIn
    /\ apiOut = ApiIdle
    /\ pc = "idle"
    /\ iteration = 0
    /\ messages = <<>>
    /\ response = NoResponse
    /\ returned = NoResponse
    /\ raisedExc = NoExc
    /\ tool_execution_history = <<>>
    /\ modelCalls = 0
    /\ lastRequest = <<>>
    /\ sentTools = <<>>
    /\ httpLog = <<>>
    /\ varied = 0
    /\ logged = <<>>

InitMask ==
    /\ OthersIdle
    /\ _default_headers = InitialDefaultHeaders
    /\ op = ""
    /\ callArg \in MaskInputs
    /\ callResult = [called |-> FALSE]
    /\ setLog = <<>>
    /\ queries = <<>>

\* masked = mask_sensitive_headers(headers), headers being the caller's callArg
MaskCall ==
    /\ ~callResult.called
    /\ op' = "mask_sensitive_headers"
    /\ callResult' = [called |-> TRUE, value |-> mask_sensitive_headers(callArg)]
    /\ callArg' = HeadersAfterMask(callArg)
    /\ UNCHANGED <<_default_headers, apiIn, apiOut, loopVars, httpLog, logged, setLog, queries>>

NextMask == MaskCall

SpecMask == InitMask /\ [][NextMask]_vars

-----------------------------------------------------------------------------
(* Claims about masking *)

IsSensitive(name) == Lower(name) \in sensitive_headers

\* the text of s before its first space
SchemeToken(s) ==
    LET spaces == {i \in 1..Len(s) : SubSeq(s, i, i) = " "}
        first == CHOOSE i \in spaces : \A j \in spaces : i <= j
    IN SubSeq(s, 1, first - 1)

Masked == callResult.called /\ op = "mask_sensitive_headers"

\* C12: a sensitive value longer than 8 characters that holds a space is
\* masked to its scheme token (the text before the first space), a space and
\* exactly 8 mask characters; a sensitive value of 8 characters or fewer is
\* masked to the mask alone.
C12_SchemeTokenThenMask ==
    Masked =>
        \A i \in 1..Len(callArg) :
            IsSensitive(callArg[i].k) =>
                LET value == callArg[i].v.v
                    masked == callResult.value[i].v.v
                IN /\ (Len(value) > 8 /\ HasSpace(value)) =>
                          masked = SchemeToken(value) \o " " \o "********"
                   /\ Len(value) <= 8 => masked = "********"

\* C13: mask_sensitive_headers leaves its input mapping as it was, returns
\* every header whose lowercased name is not sensitive with its value, and
\* returns exactly the input's header names.
C13_MaskIsPure ==
    [][ op' = "mask_sensitive_headers" =>
            /\ callArg' = callArg
            /\ DictKeys(callResult'.value) = DictKeys(callArg)
            /\ Len(callResult'.value) = Len(callArg)
            /\ \A i \in 1..Len(callArg) :
                  /\ callResult'.value[i].k = callArg[i].k
                  /\ ~IsSensitive(callArg[i].k) => callResult'.value[i] = callArg[i] ]_vars

C13_Witness ==
    /\ Masked
    /\ Len(callArg) = 2
    /\ IsSensitive(callArg[1].k) /\ ~IsSensitive(callArg[2].k)
    /\ callResult.value[1] # callArg[1]
    /\ callResult.value[2] = callArg[2]

-----------------------------------------------------------------------------
(* validate_tools called directly and by chat_with_claude, on tools of every
   name shape *)

\* names up to 64 characters, and longer ones with 1, 2, 3, 4 and more
\* segments, with little and with no room left for the middle segments
ToolNames ==
    { "api_call_get_x",
      "api_call_get_" \o Rep("x", 50),
      "api_call_get_" \o Rep("x", 51),
      Rep("x", 65),
      "api_" \o Rep("x", 61),
      "api_call_" \o Rep("x", 60),
      "api_call_get_" \o Rep("x", 60),
      "api_call_get_organizations_by_id_members_by_member_id_permissions_list",
      "api_call_post_users_" \o Rep("y", 40) \o "_items_create",
      "api_call_get_abc_" \o Rep("x", 49),
      "api_call_get_ab_" \o Rep("x", 50),
      "api_call_get_a_" \o Rep("x", 60),
      "api_call_get_" \o Rep("x", 55) \o "_",
      Rep("p", 30) \o "_" \o Rep("q", 30) \o "_get_a_b",
      "api_c_all_xxxxxxxxxx_" \o Rep("z", 50),
      "my_api_call_tool_" \o Rep("w", 60) }

\* the tools lists handed to validate_tools: one or two tools, with and
\* without the optional keys
ToolLists ==
    { <<Tool(n)>> : n \in ToolNames }
    \cup { <<<<Item("name", JStr(n))>>>> : n \in ToolNames }
    \cup { <<Tool(n), Tool(m)>> : n \in ToolNames, m \in ToolNames }

InitValidate ==
    /\ OthersIdle
    /\ _default_headers = InitialDefaultHeaders
    /\ op = ""
    /\ callArg \in ToolLists
    /\ callResult = [called |-> FALSE]
    /\ setLog = <<>>
    /\ queries = <<>>

\* validated = validate_tools(tools), tools being the caller's callArg
ValidateCall ==
    /\ ~callResult.called
    /\ op' = "validate_tools"
    /\ callResult' = [called |-> TRUE, value |-> validate_tools(callArg)]
    /\ UNCHANGED <<_default_headers, apiIn, apiOut, pc, iteration, messages, response,
                   returned, raisedExc, tool_execution_history, modelCalls, lastRequest,
                   sentTools, httpLog, varied, logged, callArg, setLog, queries>>

\* lines 277 and 295-301: chat_with_claude(tools=callArg) hands
\* validate_tools(tools) to messages.create
ChatSendsTools ==
    /\ sentTools = <<>>
    /\ sentTools' = validate_tools(callArg)
    /\ UNCHANGED <<_default_headers, apiIn, apiOut, pc, iteration, messages, response,
                   returned, raisedExc, tool_execution_history, modelCalls, lastRequest,
                   httpLog, varied, logged, callVars>>

\* again = validate_tools(validated), validated being what ValidateCall handed back
ValidateAgain ==
    /\ callResult.called
    /\ op = "validate_tools"
    /\ op' = "validate_tools again"
    /\ callResult' = [called |-> TRUE, value |-> validate_tools(callResult.value)]
    /\ UNCHANGED <<_default_headers, apiIn, apiOut, pc, iteration, messages, response,
                   returned, raisedExc, tool_execution_history, modelCalls, lastRequest,
                   sentTools, httpLog, varied, logged, callArg, setLog, queries>>

NextValidate == ValidateCall \/ ChatSendsTools \/ ValidateAgain

SpecValidate == InitValidate /\ [][NextValidate]_vars

-----------------------------------------------------------------------------
(* Claims about tool names *)

NameOf(tool) == DictGet(tool, "name").v

EndsWith(s, suffix) ==
    /\ Len(suffix) <= Len(s)
    /\ SubSeq(s, Len(s) - Len(suffix) + 1, Len(s)) = suffix

BeginsWith(s, prefix) ==
    /\ Len(prefix) <= Len(s)
    /\ SubSeq(s, 1, Len(prefix)) = prefix

\* the underscore-separated segments of s
Segments(s) == Split(s)

FirstThree(s) == Join(SubSeq(Segments(s), 1, 3))
FinalSegment(s) == Segments(s)[Len(Segments(s))]

Validated == callResult.called /\ op = "validate_tools"

\* C14: validate_tools gives every tool whose name is longer than 64
\* characters a name of at most 64 characters, and every tool that
\* chat_with_claude sends to the model has a name of at most 64 characters.
C14_NameAtMost64 ==
    /\ Validated =>
          \A i \in 1..Len(callArg) :
              Len(NameOf(callArg[i])) > 64 => Len(NameOf(callResult.value[i])) <= 64
    /\ \A i \in 1..Len(sentTools) : Len(NameOf(sentTools[i])) <= 64

C14_Witness ==
    /\ Validated
    /\ Len(callArg) = 2
    /\ Len(NameOf(callArg[1])) > 64 /\ Len(NameOf(callArg[2])) > 64
    /\ EndsWith(NameOf(callResult.value[1]), "...")
    /\ ~EndsWith(NameOf(callResult.value[2]), "...")
    /\ sentTools = callResult.value

\* C15 as stated: every name longer than 64 characters with at least 3
\* segments is validated to a name that begins with its first 3 segments and
\* ends with its final segment.
C15_KeepsSegments ==
    Validated =>
        \A i \in 1..Len(callArg) :
            LET name == NameOf(callArg[i])
            IN (Len(name) > 64 /\ Len(Segments(name)) >= 3) =>
                  /\ BeginsWith(NameOf(callResult.value[i]), FirstThree(name))
                  /\ EndsWith(NameOf(callResult.value[i]), FinalSegment(name))

\* C15 amended: a name longer than 64 characters with at least 3 segments,
\* whose first 3 segments (joined) and final segment take fewer than 62
\* characters together, is validated to a name that begins with its first 3
\* segments and ends with an underscore and its final segment; with 62
\* characters or more it is validated to its first 60 characters and "...".
C15_KeepsSegmentsWhenRoom ==
    Validated =>
        \A i \in 1..Len(callArg) :
            LET name == NameOf(callArg[i])
                valid == NameOf(callResult.value[i])
            IN (Len(name) > 64 /\ Len(Segments(name)) >= 3) =>
                  IF Len(FirstThree(name)) + Len(FinalSegment(name)) < 62
                  THEN /\ BeginsWith(valid, FirstThree(name) \o "_")
                       /\ EndsWith(valid, "_" \o FinalSegment(name))
                  ELSE valid = SubSeq(name, 1, 60) \o "..."

C15_Witness ==
    /\ Validated
    /\ Len(callArg) = 1
    /\ Len(NameOf(callArg[1])) > 64
    /\ Len(Segments(NameOf(callArg[1]))) >= 5
    /\ Len(FirstThree(NameOf(callArg[1]))) + Len(FinalSegment(NameOf(callArg[1]))) < 62
    /\ FinalSegment(NameOf(callArg[1])) # ""
    /\ NameOf(callResult.value[1]) # NameOf(callArg[1])

\* C16: validate_tools returns every name of at most 64 characters as it is.
C16_ShortNameUnchanged ==
    Validated =>
        \A i \in 1..Len(callArg) :
            Len(NameOf(callArg[i])) <= 64 =>
                NameOf(callResult.value[i]) = NameOf(callArg[i])

C16_Witness ==
    /\ Validated
    /\ \E i \in 1..Len(callArg) :
          /\ Len(NameOf(callArg[i])) = 64
          /\ NameOf(callResult.value[i]) = NameOf(callArg[i])
    /\ \E i \in 1..Len(callArg) : NameOf(callResult.value[i]) # NameOf(callArg[i])

-----------------------------------------------------------------------------
(* Claims about api_call_service's validation and headers *)

\* the step is a call of api_call_service
ApiCalled == ~apiOut.called /\ apiOut'.called

IsRequestLog(rec) == rec.t = "dict" /\ DictGet(rec.v, "type") = JStr("request")

\* C17: a call of api_call_service whose url or method is None or empty
\* returns a mapping with an error text, raises nothing, issues no HTTP
\* request, logs no request and leaves the header store as it was.
C17_MissingUrlOrMethod ==
    [][ (ApiCalled /\ (Falsy(apiIn.url) \/ Falsy(apiIn.method))) =>
            /\ ~apiOut'.raised
            /\ DictHas(apiOut'.value, "error")
            /\ DictGet(apiOut'.value, "error").t = "str"
            /\ DictGet(apiOut'.value, "error").v # ""
            /\ apiOut'.sent = <<>>
            /\ httpLog' = httpLog
            /\ \A i \in 1..Len(logged') : ~IsRequestLog(logged'[i])
            /\ _default_headers' = _default_headers ]_vars

C17_Witness ==
    /\ apiOut.called
    /\ ~Falsy(apiIn.url) /\ Falsy(apiIn.method)
    /\ apiIn.headers.t = "dict" /\ apiIn.headers.v # <<>>
    /\ apiOut.value = <<Item("error", JStr("Method is required"))>>
    /\ httpLog = <<>>

\* C18: the headers of the request a call of api_call_service sends are the
\* header store's content at the call overridden per key by the call's
\* headers: each key of either has the call's value if the call names it and
\* the store's value otherwise, and there is no other key.
C18_EffectiveHeaders ==
    [][ ApiCalled =>
            \A i \in 1..Len(apiOut'.sent) :
                LET sent == apiOut'.sent[i].headers
                IN /\ DictKeys(sent) = EffectiveKeys(_default_headers, apiIn)
                   /\ Len(sent) = Cardinality(EffectiveKeys(_default_headers, apiIn))
                   /\ \A key \in DictKeys(sent) :
                         DictGet(sent, key) = EffectiveValue(_default_headers, apiIn, key) ]_vars

C18_Witness ==
    /\ apiOut.called
    /\ Len(apiOut.sent) = 1
    /\ DictHas(_default_headers, "Authorization")
    /\ apiIn.headers.t = "dict" /\ DictHas(apiIn.headers.v, "Accept")
    /\ DictGet(apiOut.sent[1].headers, "Accept") = JStr("text/plain")
    /\ DictGet(_default_headers, "Accept") = JStr("application/json")
    /\ DictGet(apiOut.sent[1].headers, "Authorization") = JStr(BearerToken)
    /\ DictGet(apiOut.sent[1].headers, "X-Api-Key") = JStr("abcd1234efgh")
    /\ DictGet(apiOut.sent[1].headers, "Content-Type") = JStr("application/json")

-----------------------------------------------------------------------------
(* The header store used by a caller: set, clear and get in any order; and
   the same with the caller writing into the mappings handed to it and
   calling api_call_service with headers of its own *)

\* the most set_default_header calls between two clear_default_headers calls
MaxSets == 3

SetNames == {"Authorization", "Accept", "X-Trace"}
SetValues == {JStr(BearerToken), JStr("text/plain")}

\* what a caller writes into a mapping it holds
CallerKeys == {"Accept", "X-Injected"}
CallerValue == JStr("changed by caller")

\* the api_call_service calls of a caller that brings headers of its own
HeaderCalls ==
    { [url |-> ExampleUrl, method |-> JStr("GET"), requestBody |-> JNull,
       params |-> JNull, headers |-> h, outcome |-> DefaultOutcome] :
      h \in HeaderInputs \ {JNull} }

InitStore ==
    /\ OthersIdle
    /\ _default_headers = InitialDefaultHeaders
    /\ NoCallYet

\* handed = set_default_header(name, value)
SetHeader ==
    /\ Len(setLog) < MaxSets
    /\ \E name \in SetNames, value \in SetValues :
        /\ _default_headers' = set_default_header(_default_headers, name, value)
        /\ callResult' = Handed(set_default_header(_default_headers, name, value), TRUE)
        /\ setLog' = Append(setLog, Item(name, value))
    /\ op' = "set_default_header"
    /\ UNCHANGED <<apiIn, apiOut, loopVars, httpLog, logged, callArg, queries>>

\* handed = clear_default_headers()
ClearHeaders ==
    /\ _default_headers' = clear_default_headers(_default_headers)
    /\ callResult' = Handed(clear_default_headers(_default_headers), TRUE)
    /\ setLog' = <<>>
    /\ op' = "clear_default_headers"
    /\ UNCHANGED <<apiIn, apiOut, loopVars, httpLog, logged, callArg, queries>>

\* handed = get_default_headers()
GetHeaders ==
    /\ callResult' = Handed(get_default_headers(_default_headers), FALSE)
    /\ op' = "get_default_headers"
    /\ UNCHANGED <<_default_headers, apiIn, apiOut, loopVars, httpLog, logged, callArg, setLog, queries>>

\* handed[key] = CallerValue, by the caller, on the mapping handed to it last
\* and not written to before: a write to the store's own dict is a write to
\* the store
CallerMutates ==
    /\ callResult.called
    /\ \A i \in 1..Len(callResult.value) : callResult.value[i].v # CallerValue
    /\ \E key \in CallerKeys :
        /\ callResult' = Handed(DictSet(callResult.value, key, CallerValue), callResult.live)
        /\ _default_headers' =
              IF callResult.live THEN DictSet(callResult.value, key, CallerValue)
              ELSE _default_headers
    /\ op' = "caller_mutates"
    /\ UNCHANGED <<apiIn, apiOut, loopVars, httpLog, logged, callArg, setLog, queries>>

\* api_call_service(url, method, headers=...), once
CallApiWithHeaders ==
    /\ ~apiOut.called
    /\ \E in \in HeaderCalls :
        LET api == ApiCall(in, _default_headers)
        IN /\ apiIn' = in
           /\ apiOut' = ApiDone(api)
           /\ httpLog' = httpLog \o api.sent
           /\ logged' = ApiLogs(in, _default_headers)
           /\ _default_headers' = StoreAfterApiCall(_default_headers, in)
    /\ op' = "api_call_service"
    /\ UNCHANGED <<loopVars, callArg, callResult, setLog, queries>>

NextStore == SetHeader \/ ClearHeaders \/ GetHeaders

SpecStore == InitStore /\ [][NextStore]_vars

NextHeaders == SetHeader \/ ClearHeaders \/ GetHeaders \/ CallerMutates \/ CallApiWithHeaders

SpecHeaders == InitStore /\ [][NextHeaders]_vars

-----------------------------------------------------------------------------
(* Claims about the header store *)

\* C19: what get_default_headers returns changes only in a step that is a
\* set_default_header or a clear_default_headers call: not when a caller
\* writes into a mapping handed to it, and not in an api_call_service call
\* with headers of its own.
C19_OnlySettersChangeStore ==
    [][ op' \notin {"set_default_header", "clear_default_headers"} =>
            get_default_headers(_default_headers') = get_default_headers(_default_headers) ]_vars

\* the value the set calls of log give name, if one of them names it
LastSet(log, name) ==
    log[CHOOSE i \in 1..Len(log) :
            /\ log[i].k = name
            /\ \A j \in (i + 1)..Len(log) : log[j].k # name].v

SetSince(log) == {log[i].k : i \in 1..Len(log)}

\* headers is the two initial defaults overridden by the set calls of log
IsDefaultsOverriddenBy(headers, log) ==
    /\ DictKeys(headers) = {"Content-Type", "Accept"} \cup SetSince(log)
    /\ Len(headers) = Cardinality(DictKeys(headers))
    /\ \A name \in DictKeys(headers) :
          DictGet(headers, name) =
              IF name \in SetSince(log) THEN LastSet(log, name)
              ELSE JStr("application/json")

\* C20: after any set_default_header and clear_default_headers calls,
\* get_default_headers returns Content-Type and Accept, both
\* application/json, overridden by the set calls made since the last clear,
\* the latest set of a name winning; right after a clear it returns exactly
\* those two defaults.
C20_DefaultsThenLastWrites ==
    /\ IsDefaultsOverriddenBy(get_default_headers(_default_headers), setLog)
    /\ op = "get_default_headers" => IsDefaultsOverriddenBy(callResult.value, setLog)
    /\ op = "clear_default_headers" =>
          get_default_headers(_default_headers) =
              << Item("Content-Type", JStr("application/json")),
                 Item("Accept", JStr("application/json")) >>

C20_Witness ==
    /\ op = "get_default_headers"
    /\ Len(setLog) = 3
    /\ setLog[1].k = "Accept" /\ setLog[3].k = "Accept" /\ setLog[1].v # setLog[3].v
    /\ setLog[2].k = "Authorization"
    /\ callResult.value =
          << Item("Content-Type", JStr("application/json")),
             Item("Accept", setLog[3].v),
             Item("Authorization", setLog[2].v) >>

-----------------------------------------------------------------------------
(* Claims about the result of a response below 400 *)

\* the call of apiIn got a response with a status below 400
AnsweredBelow400 ==
    /\ apiOut.called
    /\ ReachesNetwork(apiIn)
    /\ apiIn.outcome.kind = "response"
    /\ apiIn.outcome.status_code < 400

\* C21: for a response below 400, a body that is not JSON gives exactly
\* {text: body, status_code}; a JSON list gives exactly {data: list,
\* status_code}; a JSON mapping gives that mapping with status_code set to the
\* response's status, in place of a status_code of the body, and with no
\* other key than the body's.
C21_ResultBelow400 ==
    AnsweredBelow400 =>
        LET body == apiIn.outcome.body
            status == JNum(apiIn.outcome.status_code)
        IN /\ ~body.json =>
                 /\ ~apiOut.raised
                 /\ apiOut.value = <<Item("text", JStr(body.text)), Item("status_code", status)>>
           /\ (body.json /\ body.value.t = "list") =>
                 /\ ~apiOut.raised
                 /\ apiOut.value = <<Item("data", body.value), Item("status_code", status)>>
           /\ (body.json /\ body.value.t = "dict") =>
                 /\ ~apiOut.raised
                 /\ DictKeys(apiOut.value) = DictKeys(body.value.v) \cup {"status_code"}
                 /\ Len(apiOut.value) = Cardinality(DictKeys(apiOut.value))
                 /\ DictGet(apiOut.value, "status_code") = status
                 /\ \A key \in DictKeys(body.value.v) \ {"status_code"} :
                       DictGet(apiOut.value, key) = DictGet(body.value.v, key)

C21_Witness ==
    /\ AnsweredBelow400
    /\ apiIn.outcome.status_code = 399
    /\ apiIn.outcome.body.json
    /\ apiIn.outcome.body.value.t = "dict"
    /\ DictHas(apiIn.outcome.body.value.v, "status_code")
    /\ DictGet(apiIn.outcome.body.value.v, "status_code") = JNum(999)
    /\ apiOut.value = <<Item("status_code", JNum(399)), Item("id", JNum(14))>>

-----------------------------------------------------------------------------
(* Claims about tool calls that are not dispatched *)

\* the latest response's first tool_use part names no HTTP tool
StalledResponse ==
    /\ FirstToolUse(response.content) # 0
    /\ ~StartsWith(PendingToolUse.name, "api_call")

\* C22: when the first tool_use part of a response has a name that does not
\* begin with "api_call", processing it issues no HTTP request, appends no
\* history record and no message; the iteration is counted all the same (the
\* loop ends after the 10th), and the next model request carries the
\* conversation of the previous one.
C22_UndispatchedToolStalls ==
    [][ /\ (pc = "tool" /\ StalledResponse) =>
              /\ httpLog' = httpLog
              /\ tool_execution_history' = tool_execution_history
              /\ messages' = messages
              /\ iteration' = iteration /\ iteration = response.n
              /\ pc' = IF iteration < 10 THEN "call" ELSE "returned"
        /\ (pc = "call" /\ modelCalls > 0 /\ StalledResponse) =>
              /\ lastRequest' = lastRequest
              /\ modelCalls' = modelCalls + 1 ]_vars

C22_Witness ==
    /\ pc \in {"tool", "returned"}
    /\ modelCalls = 3
    /\ Len(lastRequest) = 3
    /\ tool_execution_history # <<>>
    /\ Len(tool_execution_history) = 1
    /\ Len(httpLog) = 1
    /\ messages = lastRequest
    \* the second iteration added nothing: its tool_use part was not dispatched
    /\ \A i \in 1..Len(httpLog) : httpLog[i].url = ExampleUrl

-----------------------------------------------------------------------------
(* Claims about the tool call of one iteration *)

\* req is the HTTP request the tool_use part asks for
IsRequestOf(req, part) ==
    /\ part.type = "tool_use"
    /\ DictHas(part.input, "url") /\ req.url = DictGet(part.input, "url")
    /\ DictHas(part.input, "method") /\ req.method = DictGet(part.input, "method")

ToolUseParts(content) == {i \in 1..Len(content) : content[i].type = "tool_use"}

\* C23: between two model calls at most one tool HTTP request is issued; it
\* is the request of the first tool_use part, in content order, of the
\* response to the earlier model call, and no request is ever issued for a
\* later tool_use part of a response.
C23_OnlyFirstToolUseRuns ==
    [][ /\ pc # "tool" => httpLog' = httpLog
        /\ pc = "tool" =>
              /\ pc' # "tool"
              /\ Len(httpLog') <= Len(httpLog) + 1
              /\ SubSeq(httpLog', 1, Len(httpLog)) = httpLog
              /\ Len(httpLog') = Len(httpLog) + 1 =>
                    \E i \in ToolUseParts(response.content) :
                        /\ \A j \in ToolUseParts(response.content) : i <= j
                        /\ IsRequestOf(httpLog'[Len(httpLog')], response.content[i])
                        /\ \A j \in ToolUseParts(response.content) \ {i} :
                              ~IsRequestOf(httpLog'[Len(httpLog')], response.content[j]) ]_vars

C23_Witness ==
    /\ pc = "call"
    /\ modelCalls = 1
    /\ Cardinality(ToolUseParts(response.content)) = 2
    /\ Len(httpLog) = 1
    /\ IsRequestOf(httpLog[1], response.content[1])
    /\ ~IsRequestOf(httpLog[1], response.content[2])

-----------------------------------------------------------------------------
(* Claims about validating twice *)

NamesOf(tools) == [i \in 1..Len(tools) |-> NameOf(tools[i])]

\* C24: validating an already validated tools list returns its names as they
\* are; and the list chat_with_claude validated once before its loop is the
\* list that validating its tools again, at the model call, gives.
C24_ValidateIdempotent ==
    [][ /\ op' = "validate_tools again" =>
              NamesOf(callResult'.value) = NamesOf(callResult.value)
        /\ sentTools' # <<>> =>
              /\ NamesOf(sentTools') = NamesOf(validate_tools(callArg'))
              /\ NamesOf(validate_tools(sentTools')) = NamesOf(sentTools') ]_vars

C24_Witness ==
    /\ op = "validate_tools again"
    /\ Len(callArg) = 2
    /\ Len(NameOf(callArg[1])) > 64 /\ Len(NameOf(callArg[2])) > 64
    /\ EndsWith(NameOf(callResult.value[1]), "...")
    /\ ~EndsWith(NameOf(callResult.value[2]), "...")
    /\ NameOf(callResult.value[1]) # NameOf(callArg[1])
    /\ NameOf(callResult.value[2]) # NameOf(callArg[2])
    /\ sentTools = callResult.value

-----------------------------------------------------------------------------
(* Claims about the growth of the execution history *)

\* C25: during one call of chat_with_claude the history only grows at its
\* end: every step keeps the records it finds, in their places and as they
\* are, adds at most one record after them, the record of the tool_use part
\* it dispatches, and never empties the history.
C25_HistoryAppendOnly ==
    [][ /\ Len(tool_execution_history') >= Len(tool_execution_history)
        /\ Len(tool_execution_history') <= Len(tool_execution_history) + 1
        /\ SubSeq(tool_execution_history', 1, Len(tool_execution_history))
              = tool_execution_history
        /\ Len(tool_execution_history') = Len(tool_execution_history) + 1 =>
              /\ pc = "tool"
              /\ Len(httpLog') >= Len(httpLog)
              /\ LET rec == tool_execution_history'[Len(tool_execution_history')]
                 IN /\ rec.tool_name = PendingToolUse.name
                    /\ rec.input = PendingToolUse.input ]_vars

C25_Witness ==
    /\ Len(tool_execution_history) = 3
    /\ tool_execution_history[1].success
    /\ ~tool_execution_history[2].success
    /\ tool_execution_history[3].success
    /\ tool_execution_history[1] # tool_execution_history[2]
    /\ Len(httpLog) = 3

-----------------------------------------------------------------------------
(* Claims about tool results reaching the model *)

\* the i-th message of the conversation was part of the latest model request
WasSent(i) == i <= Len(lastRequest) /\ lastRequest[i] = messages[i]

CallOver == pc \in {"returned", "raised"}

\* C26 as stated: once chat_with_claude is over, every tool_result message of
\* the conversation was part of a model request of that call, the one of a
\* tool call made in the 10th iteration too.
C26_EveryToolResultSent ==
    CallOver =>
        \A i \in 1..Len(messages) : IsToolResultMessage(messages[i]) => WasSent(i)

\* C26 amended: every tool_result message was part of the latest model
\* request, or is the last message and waits for the next model request,
\* which carries the whole conversation; only the tool_result of the 10th
\* iteration is left unsent when chat_with_claude returns.
C26_ToolResultSentBeforeLimit ==
    [][ /\ pc = "call" => lastRequest' = messages
        /\ \A i \in 1..Len(messages') :
              IsToolResultMessage(messages'[i]) =>
                  \/ i <= Len(lastRequest') /\ lastRequest'[i] = messages'[i]
                  \/ /\ i = Len(messages')
                     /\ \/ pc' = "call"
                        \/ pc' = "returned" /\ iteration' = 10 /\ modelCalls' = 10 ]_vars

C26_Witness ==
    /\ pc = "returned"
    /\ iteration = 10
    /\ Len(messages) = 21
    /\ IsToolResultMessage(messages[21])
    /\ ~WasSent(21)
    /\ \A i \in 1..19 : WasSent(i)

-----------------------------------------------------------------------------
(* Claims about the shape of the conversation *)

\* the id of the first tool_use part of an assistant message
FirstToolUseId(m) ==
    LET parts == ToolUseParts(m.content.v)
    IN m.content.v[CHOOSE i \in parts : \A j \in parts : i <= j].id

\* C27: from a fresh conversation, the messages of every model request start
\* with a user message, alternate between user and assistant, end with a user
\* message, and every assistant message is followed at once by a user
\* tool_result message whose tool_use_id is the id of the first tool_use part
\* of that assistant message.
C27_ConversationShape ==
    modelCalls > 0 =>
        /\ Len(lastRequest) >= 1
        /\ \A i \in 1..Len(lastRequest) :
              lastRequest[i].role = IF i % 2 = 1 THEN "user" ELSE "assistant"
        /\ lastRequest[Len(lastRequest)].role = "user"
        /\ \A i \in 1..Len(lastRequest) :
              lastRequest[i].role = "assistant" =>
                  /\ i < Len(lastRequest)
                  /\ ToolUseParts(lastRequest[i].content.v) # {}
                  /\ IsToolResultMessage(lastRequest[i + 1])
                  /\ lastRequest[i + 1].content.v[1].tool_use_id = FirstToolUseId(lastRequest[i])

C27_Witness ==
    /\ modelCalls = 3
    /\ Len(lastRequest) = 5
    /\ lastRequest[2].content.v[1].type = "text"
    /\ lastRequest[3].content.v[1].tool_use_id = ToolId(1, 2)
    /\ Cardinality(ToolUseParts(lastRequest[4].content.v)) = 1
    /\ lastRequest[5].content.v[1].tool_use_id = ToolId(2, 1)

-----------------------------------------------------------------------------
(* Claims about the records of the execution history *)

\* C28: in every record of the history, success is true exactly when the
\* result has no error key; a successful record has a status_code below 400
\* and null error_details; a failed record has error_details that are not
\* null and carry the result's error as their message.
C28_RecordConsistent ==
    \A i \in 1..Len(tool_execution_history) :
        LET rec == tool_execution_history[i]
        IN /\ rec.result.t = "dict"
           /\ rec.success <=> ~DictHas(rec.result.v, "error")
           /\ rec.success =>
                 /\ DictHas(rec.result.v, "status_code")
                 /\ DictGet(rec.result.v, "status_code").t = "num"
                 /\ DictGet(rec.result.v, "status_code").v < 400
                 /\ rec.error_details = JNull
           /\ ~rec.success =>
                 /\ rec.error_details # JNull
                 /\ rec.error_details.t = "dict"
                 /\ DictHas(rec.error_details.v, "message")
                 /\ DictGet(rec.error_details.v, "message") = DictGet(rec.result.v, "error")

C28_Witness ==
    /\ Len(tool_execution_history) = 2
    /\ tool_execution_history[1].success
    /\ ~tool_execution_history[2].success
    /\ DictHas(tool_execution_history[2].result.v, "status_code")
    /\ DictGet(tool_execution_history[2].result.v, "status_code") = JNum(200)
    /\ DictGet(tool_execution_history[2].error_details.v, "message") = JStr("not found")

-----------------------------------------------------------------------------
(* cli.py: conversation_mode. callArg is its messages list, the argument it
   hands to chat_with_claude; the loop's messages is chat_with_claude's own
   name for the conversation *)

\* the most queries a user types in one session
MaxTurns == 3

\* the n-th query the user types
Query(n) == "query " \o ToString(n)

UserMessage(text) == [role |-> "user", content |-> JStr(text)]

\* cli.py lines 99-110: the history is cleared, messages = []
InitConversation ==
    /\ _default_headers \in StoreStates
    /\ apiIn = NoApiIn
    /\ apiOut = ApiIdle
    /\ pc = "prompt"
    /\ iteration = 0
    /\ messages = <<>>
    /\ response = NoResponse
    /\ returned = NoResponse
    /\ raisedExc = NoExc
    /\ tool_execution_history = <<>>
    /\ modelCalls = 0
    /\ lastRequest = <<>>
    /\ sentTools = <<>>
    /\ httpLog = <<>>
    \* the turns are made of default exchanges and text answers; what one
    \* call does with any other exchange is explored from Init
    /\ varied = MaxVaried
    /\ logged = <<>>
    /\ NoCallYet

\* cli.py lines 112-163 and main.py lines 263-277: the user types a query;
\* with a non-empty messages list conversation_mode appends the query to it
\* and hands the list to chat_with_claude, which appends the query to it;
\* with an empty one chat_with_claude starts a list of its own
StartTurn ==
    /\ pc = "prompt"
    /\ Len(queries) < MaxTurns
    /\ LET user_query == Query(Len(queries) + 1)
       IN /\ queries' = Append(queries, user_query)
          /\ IF callArg # <<>>
             THEN /\ messages' = callArg \o <<UserMessage(user_query), UserMessage(user_query)>>
                  /\ callArg' = callArg \o <<UserMessage(user_query), UserMessage(user_query)>>
             ELSE /\ messages' = <<UserMessage(user_query)>>
                  /\ callArg' = callArg
    /\ pc' = "call"
    /\ iteration' = 0
    /\ response' = NoResponse
    /\ returned' = NoResponse
    /\ op' = "chat_with_claude"
    /\ UNCHANGED <<_default_headers, apiIn, apiOut, raisedExc, tool_execution_history,
                   modelCalls, lastRequest, sentTools, httpLog, varied, logged,
                   callResult, setLog>>

\* cli.py lines 150-180: chat_with_claude has returned. A list handed to it
\* holds what the loop appended; without one, messages becomes the query and
\* the response
EndTurn ==
    /\ pc = "returned"
    /\ pc' = "prompt"
    /\ callResult' = [called |-> TRUE, value |-> returned]
    /\ callArg' = IF callArg # <<>> THEN messages
                  ELSE <<messages[1], AssistantMessage(returned)>>
    /\ UNCHANGED <<_default_headers, apiIn, apiOut, iteration, messages, response,
                   returned, raisedExc, tool_execution_history, modelCalls, lastRequest,
                   sentTools, httpLog, varied, logged, op, setLog, queries>>

NextConversation ==
    StartTurn \/ ModelCallRaises \/ ModelCallResponds \/ ToolStep \/ EndTurn

SpecConversation == InitConversation /\ [][NextConversation]_vars

-----------------------------------------------------------------------------
(* Claims about conversation mode *)

\* how often the query is a user message of msgs
TimesAsked(msgs, text) ==
    Cardinality({i \in 1..Len(msgs) : msgs[i] = UserMessage(text)})

\* C29: in conversation mode the messages of a model request hold every query
\* typed so far exactly once and alternate between user and assistant; and
\* when the next query is awaited, the conversation ends with the assistant
\* message of the final answer to the previous query.
C29_TurnsAlternate ==
    /\ (pc \in {"tool", "returned"} /\ queries # <<>>) =>
          /\ \A n \in 1..Len(queries) : TimesAsked(lastRequest, queries[n]) = 1
          /\ \A i \in 1..Len(lastRequest) :
                lastRequest[i].role = IF i % 2 = 1 THEN "user" ELSE "assistant"
    /\ (pc = "prompt" /\ queries # <<>>) =>
          /\ callArg # <<>>
          /\ callArg[Len(callArg)] = AssistantMessage(callResult.value)

-----------------------------------------------------------------------------
(* Claims about truncation and dispatch *)

\* C30: the validated name of a tool begins with "api_call" exactly when its
\* original name does.
C30_PrefixKept ==
    Validated =>
        \A i \in 1..Len(callArg) :
            BeginsWith(NameOf(callResult.value[i]), "api_call")
                <=> BeginsWith(NameOf(callArg[i]), "api_call")

C30_Witness ==
    /\ Validated
    /\ Len(callArg) = 2
    /\ NameOf(callResult.value[1]) # NameOf(callArg[1])
    /\ NameOf(callResult.value[2]) # NameOf(callArg[2])
    /\ BeginsWith(NameOf(callArg[1]), "api_call")
    /\ BeginsWith(NameOf(callResult.value[1]), "api_call")
    /\ ~EndsWith(NameOf(callResult.value[1]), "...")
    /\ BeginsWith(NameOf(callArg[2]), "api_c_all")
    /\ ~BeginsWith(NameOf(callResult.value[2]), "api_call")

====
